---------------------------- MODULE Spec2Model ----------------------------
(***************************************************************************)
(* A model of rrddmma's device context (src/src/rdma/context.rs) and of    *)
(* its send work requests (src/src/rdma/wr.rs).                            *)
(*                                                                         *)
(* Spec    the device context: Context::open, the Arc<ContextInner>        *)
(*         life cycle (clone, drop, alloc_pd, create_cq) and mtu().        *)
(* SpecWr  SendWr::new and SendWr::to_wr.                                  *)
(* SpecQp  one reliable-connected queue pair with its send completion      *)
(*         queue: post_send, the device, poll.                             *)
(*                                                                         *)
(* The verbs driver is the environment: which devices exist and which      *)
(* ports are active is fixed by Init; what a query answers (MTU code, GID  *)
(* table length) and which single driver call fails are inputs of open.    *)
(***************************************************************************)
EXTENDS Integers, Sequences, FiniteSets, TLC

VARIABLES
    devs,       \* the enumerated devices: a sequence of [name, ports]
    handles,    \* every ibv_context ever opened: [dev, open, closes]
    ctxs,       \* every ContextInner ever built, with its Arc holders
    last,       \* the arguments and the outcome of the latest Context::open
    calls,      \* how many times Context::open has been called
    mtuOut,     \* the latest mtu() call: the cached code and what came out
    lastWr,     \* the latest SendWr built by SendWr::new
    lastDesc,   \* the ibv_send_wr that to_wr() produced from lastWr
    sq,         \* the queue pair's send queue: descriptors not yet executed
    cq,         \* its send completion queue: completions not yet polled
    polled,     \* the batches returned by the polls so far
    posted,     \* the SendWr values accepted by post_send, in order
    qpState     \* "RTS", or "ERR" after a failed completion

ctxVars == <<devs, handles, ctxs, last, calls, mtuOut>>
wrVars == <<lastWr, lastDesc, sq, cq, polled, posted, qpState>>
vars == <<devs, handles, ctxs, last, calls, mtuOut,
          lastWr, lastDesc, sq, cq, polled, posted, qpState>>

---------------------------------------------------------------------------
(* Bounds of the model. *)

MaxDevs == 2
MaxPorts == 2
MaxPortNum == 3
MaxGidIndex == 2
MaxGidTblLen == 2
MaxMtuCode == 6
MaxCalls == 1
MaxRefs == 3
MaxWrId == 1
MaxImm == 1
MaxSge == 2
MaxPosts == 3
MaxPoll == 2

---------------------------------------------------------------------------
(* Option<T>: None is the empty sequence, Some(v) the one-element one. *)

None == <<>>

Some(v) == <<v>>

IsSome(o) == Len(o) = 1

Unwrap(o) == o[1]

---------------------------------------------------------------------------
(* The driver's world. *)

DevName(i) == <<"mlx5", i - 1>>

PortStates == {"IBV_PORT_ACTIVE", "IBV_PORT_DOWN"}

PortLists == UNION {[1..n -> PortStates] : n \in 1..MaxPorts}

DeviceLists ==
    UNION {{[i \in 1..n |-> [name |-> DevName(i), ports |-> ps[i]]] :
                ps \in [1..n -> PortLists]} : n \in 0..MaxDevs}

\* What the driver answers to one call of open: the position of the one
\* driver call that fails (0: none does), and the port attributes it reports.
MaxFault == 4 + MaxDevs * (2 + MaxPorts)

Envs == [fault : 0..MaxFault, active_mtu : 0..MaxMtuCode,
         gid_tbl_len : 0..MaxGidTblLen]

IoOp(op, d, p, i) == [op |-> op, dev |-> d, port |-> p, index |-> i]

NoCtxInner == [handle |-> 0, dev |-> 0, port_num |-> 0, gid_index |-> 0,
               gid |-> <<0, 0, 0>>, active_mtu |-> 0, gid_tbl_len |-> 0,
               phys_port_cnt |-> 0]

\* An outcome of open: hs are the handles this call opened, in order.
Err(msg, io, hs) ==
    [status |-> "err", err |-> msg, io |-> io, hs |-> hs, inner |-> NoCtxInner]

Panic(msg, io, hs) ==
    [status |-> "panic", err |-> msg, io |-> io, hs |-> hs, inner |-> NoCtxInner]

Ok(io, hs, inner) ==
    [status |-> "ok", err |-> "", io |-> io, hs |-> hs, inner |-> inner]

CloseLast(hs) ==
    [hs EXCEPT ![Len(hs)] = [@ EXCEPT !.open = FALSE, !.closes = @ + 1]]

---------------------------------------------------------------------------
(* Context::open, src/src/rdma/context.rs lines 71-134.  `io` is the       *)
(* sequence of driver calls the attempt has made so far; the call whose    *)
(* position equals env.fault is the one that fails.                        *)

DevNameArgs ==
    {None} \cup {Some(DevName(i)) : i \in 1..MaxDevs} \cup {Some(<<"rxe", 0>>)}

\* A lookup that falls back to the first device when the name is unknown.
find_orFirst(dev_name) ==
    LET hits == {i \in 1..Len(devs) : devs[i].name = dev_name}
    IN  IF hits = {} THEN (IF Len(devs) = 0 THEN 0 ELSE 1)
        ELSE CHOOSE i \in hits : \A j \in hits : i <= j

\* .iter().find(|dev| dev_name == dev.name()): the first device of that
\* name, 0 when there is none.
find(dev_name) ==
    LET hits == {i \in 1..Len(devs) : devs[i].name = dev_name}
    IN  IF hits = {} THEN 0 ELSE CHOOSE i \in hits : \A j \in hits : i <= j

\* The argument handed to the driver as it came, without the remainder.
GidTableIndex_unreduced(gid_index, gid_tbl_len) == gid_index % 256

\* (gid_index as i32 % port_attr.gid_tbl_len) as u8
GidTableIndex(gid_index, gid_tbl_len) == (gid_index % gid_tbl_len) % 256

\* Lines 112-133: the GID query and the construction of ContextInner.  The
\* handle the Context keeps is the last one of hs.
GidTail(d, port_num, gid_index, io, hs, env) ==
    IF env.gid_tbl_len = 0
    THEN Panic("remainder with a divisor of zero", io, hs)
    ELSE LET idx == GidTableIndex(gid_index, env.gid_tbl_len)
             io1 == Append(io, IoOp("query_gid", d, port_num, idx))
         IN  IF Len(io1) = env.fault
             THEN Err("failed to query GID", io1, hs)
             ELSE Ok(io1, hs,
                     [handle |-> Len(hs), dev |-> d, port_num |-> port_num,
                      gid_index |-> gid_index, gid |-> <<d, port_num, idx>>,
                      active_mtu |-> env.active_mtu,
                      gid_tbl_len |-> env.gid_tbl_len,
                      phys_port_cnt |-> Len(devs[d].ports)])

\* Lines 76-97: dev_name = Some(dev_name).
open_named(dev_name, port_num, gid_index, env) ==
    LET f == env.fault
        d == find(dev_name)
        io1 == <<IoOp("get_device_list", 0, 0, 0)>>
        io2 == Append(io1, IoOp("open_device", d, 0, 0))
        hs == <<[dev |-> d, open |-> TRUE, closes |-> 0]>>
        io3 == Append(io2, IoOp("query_device", d, 0, 0))
        io4 == Append(io3, IoOp("query_port", d, port_num, 0))
    IN  IF Len(io1) = f THEN Err("device list error", io1, <<>>)
        ELSE IF d = 0 THEN Err("device not found", io1, <<>>)
        ELSE IF Len(io2) = f THEN Err("os error", io2, <<>>)
        ELSE IF Len(io3) = f THEN Err("query_device error", io3, hs)
        ELSE IF port_num > Len(devs[d].ports)
             THEN Err("invalid port number", io3, hs)
        ELSE IF Len(io4) = f THEN Err("query_port error", io4, hs)
        ELSE IF devs[d].ports[port_num] # "IBV_PORT_ACTIVE"
             THEN Err("port is not active", io4, hs)
        ELSE GidTail(d, port_num, gid_index, io4, hs, env)

IterItem(kind, msg, io, hs, d, p) ==
    [kind |-> kind, err |-> msg, io |-> io, hs |-> hs, dev |-> d, port |-> p]

\* DeviceList::iter().nth(k): the iterator walks the devices in enumeration
\* order, opens each, queries it and its ports 1..phys_port_cnt, and yields
\* Ok(DevicePort(ctx, port)) for every active port and Err for a driver call
\* that fails; nth(k) discards k items and returns the next one.  d is the
\* device being scanned and p the next port to query (0: d is not opened
\* yet).  The iterator closes the handle of a device it has finished with
\* and the one it holds when the item returned is an Err.
RECURSIVE iter_nth(_, _, _, _, _, _)
iter_nth(d, p, k, io, hs, f) ==
    IF d > Len(devs) THEN IterItem("none", "", io, hs, 0, 0)
    ELSE IF p = 0 THEN
        LET io1 == Append(io, IoOp("open_device", d, 0, 0))
            hs1 == Append(hs, [dev |-> d, open |-> TRUE, closes |-> 0])
            io2 == Append(io1, IoOp("query_device", d, 0, 0))
        IN  IF Len(io1) = f THEN
                IF k = 0 THEN IterItem("err", "os error", io1, hs, 0, 0)
                ELSE iter_nth(d + 1, 0, k - 1, io1, hs, f)
            ELSE IF Len(io2) = f THEN
                IF k = 0
                THEN IterItem("err", "query_device error", io2,
                              CloseLast(hs1), 0, 0)
                ELSE iter_nth(d + 1, 0, k - 1, io2, CloseLast(hs1), f)
            ELSE iter_nth(d, 1, k, io2, hs1, f)
    ELSE IF p > Len(devs[d].ports) THEN
        iter_nth(d + 1, 0, k, io, CloseLast(hs), f)
    ELSE
        LET io1 == Append(io, IoOp("query_port", d, p, 0))
        IN  IF Len(io1) = f THEN
                IF k = 0
                THEN IterItem("err", "query_port error", io1,
                              CloseLast(hs), 0, 0)
                ELSE iter_nth(d, p + 1, k - 1, io1, hs, f)
            ELSE IF devs[d].ports[p] = "IBV_PORT_ACTIVE" THEN
                IF k = 0 THEN IterItem("ok", "", io1, hs, d, p)
                ELSE iter_nth(d, p + 1, k - 1, io1, hs, f)
            ELSE iter_nth(d, p + 1, k, io1, hs, f)

\* An index that forgets that port numbers start from 1.
nth_index_zeroBased(port_num) == port_num

\* .nth(port_num as usize - 1)
nth_index(port_num) == port_num - 1

\* Lines 98-110: dev_name = None.  The port_num of lines 103-133 is the one
\* of the DevicePort, which shadows the argument.
open_scan(port_num, gid_index, env) ==
    LET f == env.fault
        io1 == <<IoOp("get_device_list", 0, 0, 0)>>
        it == iter_nth(1, 0, nth_index(port_num), io1, <<>>, f)
        io2 == Append(it.io, IoOp("query_device", it.dev, 0, 0))
        io3 == Append(io2, IoOp("query_port", it.dev, it.port, 0))
    IN  IF Len(io1) = f THEN Err("device list error", io1, <<>>)
        ELSE IF it.kind = "none"
             THEN Err("not enough active ports found", it.io, it.hs)
        ELSE IF it.kind = "err" THEN Err(it.err, it.io, it.hs)
        ELSE IF Len(io2) = f THEN Err("query_device error", io2, it.hs)
        ELSE IF Len(io3) = f THEN Err("query_port error", io3, it.hs)
        ELSE GidTail(it.dev, it.port, gid_index, io3, it.hs, env)

open_device_port(dev_name, port_num, gid_index, env) ==
    IF IsSome(dev_name)
    THEN open_named(Unwrap(dev_name), port_num, gid_index, env)
    ELSE open_scan(port_num, gid_index, env)

\* An open that enumerates the devices before it looks at port_num.
open_listFirst(dev_name, port_num, gid_index, env) ==
    LET io1 == <<IoOp("get_device_list", 0, 0, 0)>>
    IN  IF Len(io1) = env.fault THEN Err("device list error", io1, <<>>)
        ELSE IF port_num = 0
             THEN Err("port number must be non-zero", io1, <<>>)
        ELSE open_device_port(dev_name, port_num, gid_index, env)

open_result(dev_name, port_num, gid_index, env) ==
    IF port_num = 0
    THEN Err("port number must be non-zero", <<>>, <<>>)
    ELSE open_device_port(dev_name, port_num, gid_index, env)

\* The call got to line 113, where port_attr.gid_tbl_len is read.
ReadsGidTblLen(r) ==
    \/ r.status = "panic"
    \/ \E k \in 1..Len(r.io) : r.io[k].op = "query_gid"

NoCall ==
    [called |-> FALSE, dev_name |-> None, port_num |-> 0, gid_index |-> 0,
     status |-> "none", err |-> "", io |-> <<>>, faulted |-> FALSE,
     gid_tbl_len |-> 0, opened |-> {}, ctx |-> 0]

NewCtx(inner, base) ==
    [handle |-> base + inner.handle, dev |-> inner.dev,
     port_num |-> inner.port_num, gid_index |-> inner.gid_index,
     gid |-> inner.gid, active_mtu |-> inner.active_mtu,
     gid_tbl_len |-> inner.gid_tbl_len,
     phys_port_cnt |-> inner.phys_port_cnt,
     users |-> 1, pds |-> 0, cqs |-> 0]

open ==
    /\ calls < MaxCalls
    /\ \E dev_name \in DevNameArgs, port_num \in 0..MaxPortNum,
          gid_index \in 0..MaxGidIndex, env \in Envs :
          LET r == open_result(dev_name, port_num, gid_index, env)
              base == Len(handles)
          IN  /\ handles' = handles \o r.hs
              /\ ctxs' = IF r.status = "ok"
                         THEN Append(ctxs, NewCtx(r.inner, base))
                         ELSE ctxs
              /\ last' = [called |-> TRUE, dev_name |-> dev_name,
                          port_num |-> port_num, gid_index |-> gid_index,
                          status |-> r.status, err |-> r.err,
                          io |-> r.io,
                          faulted |-> env.fault \in 1..Len(r.io),
                          gid_tbl_len |-> IF ReadsGidTblLen(r)
                                          THEN env.gid_tbl_len ELSE 0,
                          opened |-> (base + 1)..(base + Len(r.hs)),
                          ctx |-> IF r.status = "ok" THEN Len(ctxs) + 1 ELSE 0]
    /\ calls' = calls + 1
    /\ UNCHANGED <<devs, mtuOut>>
    /\ UNCHANGED wrVars

---------------------------------------------------------------------------
(* The Arc<ContextInner> life cycle.  A ContextInner is held by the        *)
(* Context values of the user (users), by the protection domains (pds)     *)
(* and by the completion queues (cqs) built on it.                         *)

Strong(c) == ctxs[c].users + ctxs[c].pds + ctxs[c].cqs

\* A ContextInner without its Drop: the handle is never closed.
drop_leak(hs, h) == hs

\* impl Drop for ContextInner: ibv_close_device(self.ctx)
drop(hs, h) ==
    [hs EXCEPT ![h] = [@ EXCEPT !.open = FALSE, !.closes = @ + 1]]

\* Arc::drop: the last holder to go runs ContextInner::drop.
Release(c, holder) ==
    /\ ctxs' = [ctxs EXCEPT ![c] = [@ EXCEPT ![holder] = @ - 1]]
    /\ handles' = IF Strong(c) = 1
                  THEN drop(handles, ctxs[c].handle)
                  ELSE handles
    /\ UNCHANGED <<devs, last, calls, mtuOut>>
    /\ UNCHANGED wrVars

\* #[derive(Clone)] on Context: Arc::clone
clone ==
    \E c \in 1..Len(ctxs) :
        /\ ctxs[c].users >= 1
        /\ Strong(c) < MaxRefs
        /\ ctxs' = [ctxs EXCEPT ![c].users = @ + 1]
        /\ UNCHANGED <<devs, handles, last, calls, mtuOut>>
        /\ UNCHANGED wrVars

DropCtx ==
    \E c \in 1..Len(ctxs) : ctxs[c].users >= 1 /\ Release(c, "users")

\* alloc_pd: Pd::new(self.clone()).  A Pd that is built keeps the clone; a
\* failed Pd::new drops it again, and self is still held by the caller.
alloc_pd ==
    \E c \in 1..Len(ctxs), ok \in BOOLEAN :
        /\ ctxs[c].users >= 1
        /\ Strong(c) < MaxRefs
        /\ ctxs' = IF ok THEN [ctxs EXCEPT ![c].pds = @ + 1] ELSE ctxs
        /\ UNCHANGED <<devs, handles, last, calls, mtuOut>>
        /\ UNCHANGED wrVars

\* create_cq: Cq::new(self.clone(), capacity)
create_cq ==
    \E c \in 1..Len(ctxs), ok \in BOOLEAN :
        /\ ctxs[c].users >= 1
        /\ Strong(c) < MaxRefs
        /\ ctxs' = IF ok THEN [ctxs EXCEPT ![c].cqs = @ + 1] ELSE ctxs
        /\ UNCHANGED <<devs, handles, last, calls, mtuOut>>
        /\ UNCHANGED wrVars

DropPd ==
    \E c \in 1..Len(ctxs) : ctxs[c].pds >= 1 /\ Release(c, "pds")

DropCq ==
    \E c \in 1..Len(ctxs) : ctxs[c].cqs >= 1 /\ Release(c, "cqs")

---------------------------------------------------------------------------
(* Context::mtu, lines 166-177.  The codes are those of enum ibv_mtu:      *)
(* IBV_MTU_256 = 1 .. IBV_MTU_4096 = 5.  Any other code reaches            *)
(* std::hint::unreachable_unchecked(), which is undefined behaviour: the   *)
(* call may return any usize or end the process.                           *)

UbValues == {0, 256, 8192}

MtuOutcomes(code) ==
    CASE code = 1 -> {[kind |-> "return", value |-> 256]}
      [] code = 2 -> {[kind |-> "return", value |-> 512]}
      [] code = 3 -> {[kind |-> "return", value |-> 1024]}
      [] code = 4 -> {[kind |-> "return", value |-> 2048]}
      [] code = 5 -> {[kind |-> "return", value |-> 4096]}
      [] OTHER -> {[kind |-> "return", value |-> v] : v \in UbValues}
                      \cup {[kind |-> "abort", value |-> 0]}

NoMtu == [ctx |-> 0, code |-> 0, kind |-> "none", value |-> 0]

mtu ==
    \E c \in 1..Len(ctxs) :
        /\ ctxs[c].users >= 1
        /\ \E out \in MtuOutcomes(ctxs[c].active_mtu) :
              mtuOut' = [ctx |-> c, code |-> ctxs[c].active_mtu,
                         kind |-> out.kind, value |-> out.value]
        /\ UNCHANGED <<devs, handles, ctxs, last, calls>>
        /\ UNCHANGED wrVars

---------------------------------------------------------------------------
(* Send work requests, src/src/rdma/wr.rs. *)

\* A registered memory region and the slices of it the requests use.
LocalSlice(i) ==
    [addr |-> 4096, lkey |-> 7, offset |-> 8 * (i - 1), len |-> 8]

LocalLists == {[i \in 1..n |-> LocalSlice(i)] : n \in 0..MaxSge}

RemoteSlices ==
    {[addr |-> 8192, rkey |-> 9, offset |-> o, len |-> 8] : o \in {0, 16}}

Peers == {[ah |-> 1, qpn |-> 5, qkey |-> 11]}

ImmArgs == {None} \cup {Some(v) : v \in 0..MaxImm}

\* enum SendWrDetails, lines 28-40
Send(imm) == [kind |-> "Send", imm |-> imm]

SendTo(peer, imm) == [kind |-> "SendTo", peer |-> peer, imm |-> imm]

Read(remote) == [kind |-> "Read", remote |-> remote]

Write(remote, imm) == [kind |-> "Write", remote |-> remote, imm |-> imm]

SendWrDetails ==
    {Send(imm) : imm \in ImmArgs}
        \cup {SendTo(peer, imm) : peer \in Peers, imm \in ImmArgs}
        \cup {Read(remote) : remote \in RemoteSlices}
        \cup {Write(remote, imm) : remote \in RemoteSlices, imm \in ImmArgs}

\* build_sgl: one (address, length, local key) entry per memory slice.
build_sgl(local) ==
    [i \in 1..Len(local) |->
        [addr |-> local[i].addr + local[i].offset, length |-> local[i].len,
         lkey |-> local[i].lkey]]

\* SendWr::new, lines 49-64
SendWr_new(local, wr_id, signal, additions) ==
    [base |-> [local |-> build_sgl(local), wr_id |-> wr_id, signal |-> signal],
     details |-> additions]

\* ud_t::from(peer) and rdma_t::from(remote): the members of the union wr.wr
UdFrom(peer) ==
    [tag |-> "ud", ah |-> peer.ah, remote_qpn |-> peer.qpn,
     remote_qkey |-> peer.qkey, remote_addr |-> 0, rkey |-> 0]

RdmaFrom(remote) ==
    [tag |-> "rdma", ah |-> 0, remote_qpn |-> 0, remote_qkey |-> 0,
     remote_addr |-> remote.addr + remote.offset, rkey |-> remote.rkey]

\* mem::zeroed::<ibv_send_wr>(): opcode 0 is IBV_WR_RDMA_WRITE.
ZeroedWr ==
    [wr_id |-> 0, sg_list |-> <<>>, num_sge |-> 0, send_flags |-> {},
     next |-> "null", opcode |-> "IBV_WR_RDMA_WRITE", imm_data |-> 0,
     wr |-> [tag |-> "zeroed", ah |-> 0, remote_qpn |-> 0, remote_qkey |-> 0,
             remote_addr |-> 0, rkey |-> 0]]

\* Flags that never ask for a completion.
SendFlags_unsignaled(signal) == {}

\* Lines 83-87: the send flags, as the set of the bits that are set.
SendFlags(signal) == IF signal THEN {"IBV_SEND_SIGNALED"} ELSE {}

\* Lines 78-88
to_wr_base(w) ==
    [ZeroedWr EXCEPT !.wr_id = w.base.wr_id,
                     !.sg_list = w.base.local,
                     !.num_sge = Len(w.base.local),
                     !.send_flags = SendFlags(w.base.signal),
                     !.next = "null"]

\* The two opcodes taken the wrong way round.
fill_opcode_with_imm_swapped(wr, imm, op, op_with_imm) ==
    IF IsSome(imm)
    THEN [wr EXCEPT !.opcode = op, !.imm_data = Unwrap(imm)]
    ELSE [wr EXCEPT !.opcode = op_with_imm]

\* fn fill_opcode_with_imm, lines 90-103
fill_opcode_with_imm(wr, imm, op, op_with_imm) ==
    IF IsSome(imm)
    THEN [wr EXCEPT !.opcode = op_with_imm, !.imm_data = Unwrap(imm)]
    ELSE [wr EXCEPT !.opcode = op]

\* A to_wr whose SendTo arm forgets the peer and whose Read arm is a copy
\* of the Write arm.
to_wr_copiedArms(w) ==
    LET wr == to_wr_base(w)
        d == w.details
    IN  CASE d.kind \in {"Send", "SendTo"} ->
                fill_opcode_with_imm(wr, d.imm, "IBV_WR_SEND",
                                  "IBV_WR_SEND_WITH_IMM")
          [] d.kind = "Read" ->
                fill_opcode_with_imm([wr EXCEPT !.wr = RdmaFrom(d.remote)], None,
                                  "IBV_WR_RDMA_WRITE",
                                  "IBV_WR_RDMA_WRITE_WITH_IMM")
          [] d.kind = "Write" ->
                fill_opcode_with_imm([wr EXCEPT !.wr = RdmaFrom(d.remote)], d.imm,
                                  "IBV_WR_RDMA_WRITE",
                                  "IBV_WR_RDMA_WRITE_WITH_IMM")

\* SendWr::to_wr, lines 77-136
to_wr(w) ==
    LET wr == to_wr_base(w)
        d == w.details
    IN  CASE d.kind = "Send" ->
                fill_opcode_with_imm(wr, d.imm, "IBV_WR_SEND",
                                  "IBV_WR_SEND_WITH_IMM")
          [] d.kind = "SendTo" ->
                fill_opcode_with_imm([wr EXCEPT !.wr = UdFrom(d.peer)], d.imm,
                                  "IBV_WR_SEND", "IBV_WR_SEND_WITH_IMM")
          [] d.kind = "Read" ->
                [wr EXCEPT !.wr = RdmaFrom(d.remote),
                           !.opcode = "IBV_WR_RDMA_READ"]
          [] d.kind = "Write" ->
                fill_opcode_with_imm([wr EXCEPT !.wr = RdmaFrom(d.remote)], d.imm,
                                  "IBV_WR_RDMA_WRITE",
                                  "IBV_WR_RDMA_WRITE_WITH_IMM")

\* The caller builds a request and translates it.
BuildWr ==
    /\ \E local \in LocalLists, wr_id \in 0..MaxWrId, signal \in BOOLEAN,
          additions \in SendWrDetails :
          LET w == SendWr_new(local, wr_id, signal, additions)
          IN  /\ lastWr' = Some(w)
              /\ lastDesc' = Some(to_wr(w))
    /\ UNCHANGED <<sq, cq, polled, posted, qpState>>
    /\ UNCHANGED ctxVars

---------------------------------------------------------------------------
(* One reliable-connected queue pair and its send completion queue.        *)

\* The operations posted to the queue pair.
RcDetails ==
    {Send(None),
     Write(CHOOSE r \in RemoteSlices : r.offset = 0, Some(MaxImm))}

\* post_send of one request: to_wr() and ibv_post_send; the device appends
\* the descriptor to the send queue.
post_send ==
    /\ Len(posted) < MaxPosts
    /\ \E wr_id \in 0..MaxWrId, signal \in BOOLEAN, additions \in RcDetails :
          LET w == SendWr_new(<<LocalSlice(1)>>, wr_id, signal, additions)
          IN  /\ sq' = Append(sq, to_wr(w))
              /\ posted' = Append(posted, w)
    /\ UNCHANGED <<lastWr, lastDesc, cq, polled, qpState>>
    /\ UNCHANGED ctxVars

\* The device executes the descriptor at the head of the send queue and, if
\* it is signaled, deposits its completion.  After a failed completion the
\* queue pair is in error and every later completion is a failure.
HwExecute ==
    /\ sq # <<>>
    /\ \E status \in (IF qpState = "RTS" THEN {"success", "error"}
                                          ELSE {"error"}) :
          /\ cq' = IF "IBV_SEND_SIGNALED" \in Head(sq).send_flags
                   THEN Append(cq, [wr_id |-> Head(sq).wr_id,
                                    status |-> status])
                   ELSE cq
          /\ qpState' = IF status = "error" THEN "ERR" ELSE qpState
    /\ sq' = Tail(sq)
    /\ UNCHANGED <<lastWr, lastDesc, polled, posted>>
    /\ UNCHANGED ctxVars

\* Cq::poll(max) with completions available: it returns the oldest ones.
poll ==
    /\ cq # <<>>
    /\ \E max \in 1..MaxPoll :
          LET n == IF max < Len(cq) THEN max ELSE Len(cq)
          IN  /\ polled' = Append(polled, SubSeq(cq, 1, n))
              /\ cq' = SubSeq(cq, n + 1, Len(cq))
    /\ UNCHANGED <<lastWr, lastDesc, sq, posted, qpState>>
    /\ UNCHANGED ctxVars

---------------------------------------------------------------------------

InitWr ==
    /\ lastWr = <<>>
    /\ lastDesc = <<>>
    /\ sq = <<>>
    /\ cq = <<>>
    /\ polled = <<>>
    /\ posted = <<>>
    /\ qpState = "RTS"

Init ==
    /\ devs \in DeviceLists
    /\ handles = <<>>
    /\ ctxs = <<>>
    /\ last = NoCall
    /\ calls = 0
    /\ mtuOut = NoMtu
    /\ InitWr

Next ==
    \/ open
    \/ clone
    \/ DropCtx
    \/ alloc_pd
    \/ create_cq
    \/ DropPd
    \/ DropCq
    \/ mtu

Spec == Init /\ [][Next]_vars

\* The work-request builder alone, and the queue pair alone: no device.
InitNoDev ==
    /\ devs = <<>>
    /\ handles = <<>>
    /\ ctxs = <<>>
    /\ last = NoCall
    /\ calls = 0
    /\ mtuOut = NoMtu
    /\ InitWr

NextWr == BuildWr

SpecWr == InitNoDev /\ [][NextWr]_vars

NextQp ==
    \/ post_send
    \/ HwExecute
    \/ poll

SpecQp == InitNoDev /\ [][NextQp]_vars

---------------------------------------------------------------------------
(* Properties of Context::open, checked under Spec. *)

OpOccurs(op) == \E i \in 1..Len(last.io) : last.io[i].op = op

\* C1: Context::open called with port_num = 0 returns an error, whatever
\* dev_name (Some or None) and gid_index are, and it makes no driver call
\* before it does: no device-list enumeration, no device open, no device,
\* port or GID query, and no handle is opened.
C1_PortZeroFailsBeforeIo ==
    (last.called /\ last.port_num = 0) =>
        /\ last.status = "err"
        /\ last.err = "port number must be non-zero"
        /\ last.io = <<>>
        /\ last.opened = {}
        /\ last.ctx = 0

C1_Witness ==
    /\ last.called
    /\ last.port_num = 0
    /\ IsSome(last.dev_name)
    /\ Len(devs) = MaxDevs
    /\ last.status = "err"

NameExists(dev_name) == \E i \in 1..Len(devs) : devs[i].name = dev_name

\* The device of name dev_name has the port and the port is not active.
PortNotActive(dev_name, port_num) ==
    \E i \in 1..Len(devs) :
        /\ devs[i].name = dev_name
        /\ port_num \in 1..Len(devs[i].ports)
        /\ devs[i].ports[port_num] # "IBV_PORT_ACTIVE"

\* C2: Context::open with dev_name = Some(name) and port_num >= 1 returns
\* an error when no enumerated device has that name, and returns an error
\* when the device exists but the requested port is not active; the two
\* errors differ ("device not found", "port is not active"), and in the
\* not-found case no device is opened.
C2_NamedOpenErrors ==
    (last.called /\ last.port_num >= 1 /\ IsSome(last.dev_name)) =>
        /\ ~NameExists(Unwrap(last.dev_name)) =>
              /\ last.status = "err"
              /\ ~OpOccurs("open_device")
              /\ last.opened = {}
              /\ last.err # "port is not active"
              /\ ~last.faulted => last.err = "device not found"
        /\ PortNotActive(Unwrap(last.dev_name), last.port_num) =>
              /\ last.status = "err"
              /\ last.err # "device not found"
              /\ ~last.faulted => last.err = "port is not active"

C2_Witness ==
    /\ last.called
    /\ IsSome(last.dev_name)
    /\ last.port_num >= 1
    /\ PortNotActive(Unwrap(last.dev_name), last.port_num)
    /\ last.err = "port is not active"
    /\ Len(devs) = MaxDevs

\* The active ports, and the place of one among them in enumeration order.
ActivePorts ==
    {dp \in (1..Len(devs)) \X (1..MaxPorts) :
        /\ dp[2] <= Len(devs[dp[1]].ports)
        /\ devs[dp[1]].ports[dp[2]] = "IBV_PORT_ACTIVE"}

Rank(d, p) ==
    Cardinality({dp \in ActivePorts :
                    dp[1] < d \/ (dp[1] = d /\ dp[2] <= p)})

\* C3: Context::open with dev_name = None and port_num = N >= 1 selects the
\* N-th active port counted across all devices in enumeration order
\* (1-indexed): when no driver call fails it returns an error if and only
\* if fewer than N active ports exist, and on success the Context is bound
\* to exactly that device and port.
C3_NthActivePort ==
    (last.called /\ last.dev_name = None /\ last.port_num >= 1
        /\ ~last.faulted) =>
        /\ last.status = "err" <=> Cardinality(ActivePorts) < last.port_num
        /\ last.status = "err" => last.err = "not enough active ports found"
        /\ last.status = "ok" =>
              LET c == ctxs[last.ctx]
              IN  /\ <<c.dev, c.port_num>> \in ActivePorts
                  /\ Rank(c.dev, c.port_num) = last.port_num
                  /\ handles[c.handle].dev = c.dev
                  /\ c.handle \in last.opened

C3_Witness ==
    /\ last.called
    /\ last.dev_name = None
    /\ last.port_num = 2
    /\ ~last.faulted
    /\ last.status = "ok"
    /\ ctxs[last.ctx].dev = 2
    /\ ctxs[last.ctx].port_num = 2

---------------------------------------------------------------------------
(* Properties of SendWr::to_wr, checked under SpecWr. *)

PlainOpcode(kind) ==
    IF kind = "Write" THEN "IBV_WR_RDMA_WRITE" ELSE "IBV_WR_SEND"

ImmOpcode(kind) ==
    IF kind = "Write" THEN "IBV_WR_RDMA_WRITE_WITH_IMM"
    ELSE "IBV_WR_SEND_WITH_IMM"

\* C4: for every SendWr that is a Send, a SendTo or a Write, to_wr() picks
\* the with-immediate opcode (SEND_WITH_IMM, RDMA_WRITE_WITH_IMM) and stores
\* the value in the immediate field exactly when the request carries
\* Some(immediate); with None it picks the plain opcode (SEND, RDMA_WRITE)
\* and the immediate field stays zero.  Only the variant and the immediate
\* decide: not wr_id, the signal flag or the scatter-gather list.
C4_ImmediateSelectsOpcode ==
    IsSome(lastWr) =>
        LET d == Unwrap(lastWr).details
            wr == Unwrap(lastDesc)
        IN  d.kind \in {"Send", "SendTo", "Write"} =>
                IF IsSome(d.imm)
                THEN /\ wr.opcode = ImmOpcode(d.kind)
                     /\ wr.imm_data = Unwrap(d.imm)
                ELSE /\ wr.opcode = PlainOpcode(d.kind)
                     /\ wr.imm_data = 0

C4_Witness ==
    /\ IsSome(lastWr)
    /\ Unwrap(lastWr).details.kind = "Write"
    /\ Unwrap(lastWr).details.imm = Some(MaxImm)
    /\ Unwrap(lastWr).base.signal
    /\ Unwrap(lastDesc).opcode = "IBV_WR_RDMA_WRITE_WITH_IMM"

\* C9: to_wr() fills the operation-specific part of the descriptor by the
\* variant alone: Send leaves the union wr.wr zeroed, SendTo stores the
\* datagram peer in it, Read and Write store the remote address and key of
\* the remote slice; a Read descriptor always has the opcode RDMA_READ and
\* a zero immediate field.
C9_DetailsByVariant ==
    IsSome(lastWr) =>
        LET d == Unwrap(lastWr).details
            wr == Unwrap(lastDesc)
        IN  /\ d.kind = "Send" => wr.wr.tag = "zeroed"
            /\ d.kind = "SendTo" =>
                  /\ wr.wr.tag = "ud"
                  /\ wr.wr.ah = d.peer.ah
                  /\ wr.wr.remote_qpn = d.peer.qpn
                  /\ wr.wr.remote_qkey = d.peer.qkey
            /\ d.kind \in {"Read", "Write"} =>
                  /\ wr.wr.tag = "rdma"
                  /\ wr.wr.remote_addr = d.remote.addr + d.remote.offset
                  /\ wr.wr.rkey = d.remote.rkey
            /\ d.kind = "Read" =>
                  /\ wr.opcode = "IBV_WR_RDMA_READ"
                  /\ wr.imm_data = 0

C9_Witness ==
    /\ IsSome(lastWr)
    /\ Unwrap(lastWr).details.kind = "Read"
    /\ Unwrap(lastWr).details.remote.offset = 16
    /\ Unwrap(lastWr).base.signal
    /\ Unwrap(lastDesc).wr.remote_addr = 8208

---------------------------------------------------------------------------
(* The queue pair, checked under SpecQp. *)

RECURSIVE Flatten(_)
Flatten(batches) ==
    IF batches = <<>> THEN <<>>
    ELSE Head(batches) \o Flatten(Tail(batches))

RECURSIVE SignaledWrIds(_)
SignaledWrIds(ws) ==
    IF ws = <<>> THEN <<>>
    ELSE (IF Head(ws).base.signal THEN <<Head(ws).base.wr_id>> ELSE <<>>)
             \o SignaledWrIds(Tail(ws))

RECURSIVE PendingIds(_)
PendingIds(descs) ==
    IF descs = <<>> THEN <<>>
    ELSE (IF "IBV_SEND_SIGNALED" \in Head(descs).send_flags
          THEN <<Head(descs).wr_id>> ELSE <<>>)
             \o PendingIds(Tail(descs))

CompletionIds(cs) == [i \in 1..Len(cs) |-> cs[i].wr_id]

\* C6: the completions of the signaled requests posted to one
\* reliable-connected queue pair come out of its send completion queue in
\* the order of posting, the i-th one carrying the wr_id given to the i-th
\* signaled request's constructor, each delivered by exactly one poll: the
\* ids polled so far, those waiting in the completion queue and those of
\* the signaled descriptors still in the send queue are, in this order,
\* the ids of the signaled requests posted.  So once both queues are
\* empty, N signaled requests have yielded exactly N completions.
C6_CompletionsInPostOrder ==
    /\ CompletionIds(Flatten(polled)) \o CompletionIds(cq) \o PendingIds(sq)
          = SignaledWrIds(posted)
    /\ \A i \in 1..Len(polled) : polled[i] # <<>>

C6_Witness ==
    /\ Len(posted) = MaxPosts
    /\ \A i \in 1..Len(posted) : posted[i].base.signal
    /\ posted[1].base.wr_id = MaxWrId
    /\ posted[2].base.wr_id = 0
    /\ sq = <<>>
    /\ cq = <<>>
    /\ Len(polled) >= 2
    /\ Len(Flatten(polled)) = MaxPosts

---------------------------------------------------------------------------
(* Properties of the context's accessors and of its handle, under Spec. *)

\* C5: mtu() returns exactly 256, 512, 1024, 2048 or 4096 for the five
\* valid codes IBV_MTU_256 .. IBV_MTU_4096 cached for the port, and for any
\* other cached code it is fatal: it returns no byte count.
C5_MtuExactOrFatal ==
    mtuOut.kind # "none" =>
        IF mtuOut.code \in 1..5
        THEN /\ mtuOut.kind = "return"
             /\ mtuOut.value = 128 * 2 ^ mtuOut.code
        ELSE mtuOut.kind = "abort"

\* C7: the handle acquired by a successful Context::open is closed exactly
\* once, and only when the last holder of the ContextInner is gone: while a
\* Context clone, a protection domain or a completion queue built on it is
\* alive the handle is open and was never closed; once none is, it is
\* closed and was closed once.
C7_HandleClosedOnceAfterLastClone ==
    \A c \in 1..Len(ctxs) :
        LET h == handles[ctxs[c].handle]
        IN  /\ h.closes <= 1
            /\ Strong(c) > 0 => (h.open /\ h.closes = 0)
            /\ Strong(c) = 0 => (~h.open /\ h.closes = 1)

\* Every Context value is dropped and the handle is still open, kept so by
\* a protection domain and a completion queue.
C7_Witness ==
    \E c \in 1..Len(ctxs) :
        /\ ctxs[c].users = 0
        /\ ctxs[c].pds >= 1
        /\ ctxs[c].cqs >= 1
        /\ handles[ctxs[c].handle].open

\* C8: for every Context that a successful Context::open(dev_name,
\* port_num, gid_index) returns, port_num() returns the port_num argument
\* and gid_index() the gid_index argument, with a device name and without.
C8_AccessorsReturnArguments ==
    (last.called /\ last.status = "ok") =>
        /\ ctxs[last.ctx].port_num = last.port_num
        /\ ctxs[last.ctx].gid_index = last.gid_index

\* C10: a Context::open that returns an error leaves no handle open: every
\* handle the attempt opened is closed by the time it returns.
C10_FailedOpenLeavesNoHandle ==
    (last.called /\ last.status = "err") =>
        \A h \in last.opened : ~handles[h].open

\* C11: during Context::open the GID table index queried is gid_index mod
\* gid_tbl_len of the chosen port, so for every gid_index and every port
\* with gid_tbl_len >= 1 the queried index lies in [0, gid_tbl_len) and an
\* out-of-range gid_index never makes open fail by itself (a query that no
\* driver fault hits succeeds); the Context caches the GID at the reduced
\* index while gid_index() still reports the unreduced argument.
C11_GidIndexReduced ==
    last.called =>
        \A k \in 1..Len(last.io) :
            last.io[k].op = "query_gid" =>
                LET q == last.io[k]
                    len == last.gid_tbl_len
                IN  /\ len >= 1
                    /\ q.index = last.gid_index % len
                    /\ q.index \in 0..(len - 1)
                    /\ ~last.faulted => last.status = "ok"
                    /\ last.status = "ok" =>
                          /\ ctxs[last.ctx].gid_tbl_len = len
                          /\ ctxs[last.ctx].gid = <<q.dev, q.port, q.index>>
                          /\ ctxs[last.ctx].gid_index = last.gid_index

\* A successful open whose gid_index is not below the table length of the
\* port: the GID cached is the one at the reduced index, which differs from
\* the argument.
C11_Witness ==
    /\ last.called
    /\ last.status = "ok"
    /\ last.gid_tbl_len >= 1
    /\ last.gid_index >= last.gid_tbl_len
    /\ ctxs[last.ctx].gid[3] = last.gid_index % last.gid_tbl_len
    /\ ctxs[last.ctx].gid[3] # last.gid_index
    /\ ctxs[last.ctx].gid_index = last.gid_index

=============================================================================
